---- MODULE Spec2Model ----
(***************************************************************************)
(* SmartGallery HTTP API (src/api/index.js): signup/login, the JWT auth    *)
(* middleware and the photo, like and comment routes over the document     *)
(* store.  Every handler is split at its awaits on the store: the step     *)
(* that reads the photo (findById) and the step that persists the change  *)
(* (save / deleteOne) are separate actions, so handlers of concurrent     *)
(* requests interleave exactly where the event loop lets them.            *)
(***************************************************************************)
EXTENDS Integers, Sequences, FiniteSets, TLC

\* ------------------------------------------------------------------ bounds
MaxReqs     == 5   \* requests received in one behaviour of Spec and SpecAuth
MaxDeep     == 7   \* requests received in one behaviour of SpecComments and SpecOwner
MaxInFlight == 2   \* handlers suspended at an await at the same time
MaxPhotos   == 1   \* photo ids ever assigned
MaxComments == 2   \* comment ids ever assigned
MaxTime     == 2   \* clock ticks (hours)

\* ------------------------------------------------------- program constants
TokenTTL == 2      \* expiresIn: "2h"

\* ------------------------------------------------------------------ inputs
SignupInputs ==
  { [username |-> "a", email |-> "a@x.com", password |-> "pw"],
    [username |-> "b", email |-> "b@x.com", password |-> "pw2"],
    [username |-> "b", email |-> "a@x.com", password |-> "pw2"] }
Emails       == {"a@x.com", "b@x.com"}
Passwords    == {"pw", "pw2"}
Texts        == {"t1", "t2"}
Descriptions == {"d2"}
PhotoIds     == 1..MaxPhotos
CommentIds   == 1..MaxComments
Slots        == 1..MaxInFlight

SlotRoutes == {"comment", "description", "like", "commentDelete", "photoDelete"}

\* ------------------------------------------------------------ JWT, bcrypt
NoToken     == [sig |-> "none",   id |-> 0, iat |-> 0, exp |-> 0]
ForgedToken == [sig |-> "forged", id |-> 1, iat |-> 0, exp |-> MaxTime + TokenTTL + 1]

JwtSign(uid, t) == [sig |-> "JWT_SECRET", id |-> uid, iat |-> t, exp |-> t + TokenTTL]

\* a faulty jwt.verify: the expiry is not checked
JwtVerifyNoExpiry(tok, t) == tok.sig = "JWT_SECRET"

JwtVerify(tok, t) == tok.sig = "JWT_SECRET" /\ t < tok.exp

BcryptHash(pw) == <<"bcrypt", 10, pw>>

BcryptCompare(pw, hashed) == hashed = BcryptHash(pw)

\* a faulty authMiddleware: the error of jwt.verify is ignored
AuthMiddlewareNoCheck(tok, t) ==
  IF tok = NoToken THEN [status |-> 401, msg |-> "No token", user |-> 0]
  ELSE [status |-> 0, msg |-> "", user |-> tok.id]

\* authMiddleware: status 0 stands for next()
AuthMiddleware(tok, t) ==
  IF tok = NoToken THEN [status |-> 401, msg |-> "No token", user |-> 0]
  ELSE IF ~JwtVerify(tok, t) THEN [status |-> 403, msg |-> "Invalid token", user |-> 0]
  ELSE [status |-> 0, msg |-> "", user |-> tok.id]

\* ------------------------------------------------------------------- state
VARIABLES
  users,        \* User collection: sequence of documents, _id = index
  photos,       \* Photo collection: function from the stored ids to documents
  nextPhoto,    \* next photo _id
  nextComment,  \* next embedded comment _id
  now,          \* clock, in hours
  held,         \* tokens login has handed to clients (the latest per user)
  reqs,         \* handlers suspended at an await, one per slot
  resp,         \* the response sent last
  budget        \* requests the clients may still send

vars == <<users, photos, nextPhoto, nextComment, now, held, reqs, resp, budget>>

Idle == [route |-> "idle", token |-> NoToken, user |-> 0, photo |-> 0, arg |-> "",
         cid |-> 0, pc |-> "idle", op |-> "none", count |-> 0]

NoResp == [route |-> "none", status |-> 0, msg |-> "", token |-> NoToken, user |-> 0,
           email |-> "", photo |-> 0, cid |-> 0, count |-> 0, comments |-> <<>>]

Reply(route, status, msg) == [NoResp EXCEPT !.route = route, !.status = status, !.msg = msg]

ReplyTo(r, status, msg) ==
  [NoResp EXCEPT !.route = r.route, !.status = status, !.msg = msg, !.token = r.token,
                 !.user = r.user, !.photo = r.photo, !.cid = r.cid]

Init ==
  /\ users = <<>>
  /\ photos = <<>>
  /\ nextPhoto = 1
  /\ nextComment = 1
  /\ now = 0
  /\ held = {}
  /\ reqs = [s \in Slots |-> Idle]
  /\ resp = NoResp
  /\ budget = MaxReqs

\* ---------------------------------------------------------- User collection
HasEmail(us, email) == \E i \in 1..Len(us) : us[i].email = email

\* the unique index the User schema puts on email: whether the store takes u
UniqueEmailIndex(us, u) == ~HasEmail(us, u.email)

\* a faulty user.save(): writes over the stored user that has the email
UserSaveUpsert(us, u) ==
  IF HasEmail(us, u.email)
  THEN [i \in 1..Len(us) |-> IF us[i].email = u.email THEN u ELSE us[i]]
  ELSE Append(us, u)

\* user.save(): the new sequence, or the old one when the store rejects the insert
UserSave(us, u) == IF UniqueEmailIndex(us, u) THEN Append(us, u) ELSE us

\* User.findOne({ email }): the _id, 0 for null
FindOneByEmail(us, email) ==
  IF HasEmail(us, email)
  THEN CHOOSE i \in 1..Len(us) :
         us[i].email = email /\ \A j \in 1..(i - 1) : us[j].email # email
  ELSE 0

\* ------------------------------------------------------------- auth routes
Signup(in) ==
  /\ budget > 0
  /\ budget' = budget - 1
  /\ LET hashed == BcryptHash(in.password)
         user   == [username |-> in.username, email |-> in.email, password |-> hashed]
         saved  == UserSave(users, user)
     IN /\ users' = saved
        /\ resp' = IF Len(saved) = Len(users) + 1 /\ saved[Len(saved)] = user
                   THEN [Reply("signup", 200, "User registered") EXCEPT !.email = in.email]
                   ELSE [Reply("signup", 500, "E11000 duplicate key") EXCEPT !.email = in.email]
  /\ UNCHANGED <<photos, nextPhoto, nextComment, now, held, reqs>>

\* the response of POST /login for the given body at time t
LoginReply(us, email, password, t) ==
  LET uid == FindOneByEmail(us, email) IN
  IF uid = 0
  THEN [Reply("login", 400, "User not found") EXCEPT !.email = email]
  ELSE IF ~BcryptCompare(password, us[uid].password)
  THEN [Reply("login", 400, "Invalid credentials") EXCEPT !.email = email]
  ELSE [Reply("login", 200, "") EXCEPT !.email = email, !.token = JwtSign(uid, t),
                                      !.user = uid]

Login(email, password) ==
  /\ budget > 0
  /\ budget' = budget - 1
  /\ resp' = LoginReply(users, email, password, now)
  /\ held' = IF resp'.status = 200
             THEN {t \in held : t.id # resp'.token.id} \cup {resp'.token}
             ELSE held
  /\ UNCHANGED <<users, photos, nextPhoto, nextComment, now, reqs>>

Tick ==
  /\ now < MaxTime
  /\ now' = now + 1
  /\ UNCHANGED <<users, photos, nextPhoto, nextComment, held, reqs, resp, budget>>

\* --------------------------------------------------------- Photo collection
\* photo.likes.includes(req.user.id)
Includes(likes, u) == \E i \in 1..Len(likes) : likes[i] = u

\* photo.comments.id(commentId): the index of the subdocument, 0 for null
CommentIndex(comments, cid) ==
  IF \E i \in 1..Len(comments) : comments[i].id = cid
  THEN CHOOSE i \in 1..Len(comments) :
         comments[i].id = cid /\ \A j \in 1..(i - 1) : comments[j].id # cid
  ELSE 0

\* a faulty push: the comment goes to the front
CommentsPushFront(comments, c) == <<c>> \o comments

\* photo.comments.push(comment), as the store applies it

CommentsPush(comments, c) == Append(comments, c)

\* a faulty ownership check: nobody is turned away
PhotoNotAllowedNever(doc, u) == FALSE

\* photo.user.toString() !== req.user.id

PhotoNotAllowed(doc, u) == doc.user # u

\* a faulty author check: the photo's owner is compared, not the comment's author
CommentNotAllowedByOwner(doc, c, u) == doc.user # u

\* comment.user.toString() !== req.user.id

CommentNotAllowed(doc, c, u) == c.user # u

\* what save() sends for the one change the handler made to its copy: an
\* atomic update of the modified path alone, applied to the stored document
DocUpdate(doc, r) ==
  CASE r.op = "pushLike"       -> [doc EXCEPT !.likes = Append(@, r.user)]
    [] r.op = "pullLike"       -> [doc EXCEPT !.likes = SelectSeq(@, LAMBDA x : x # r.user)]
    [] r.op = "pushComment"    ->
         [doc EXCEPT !.comments =
                CommentsPush(@, [id |-> r.cid, user |-> r.user, text |-> r.arg])]
    [] r.op = "pullComment"    -> [doc EXCEPT !.comments = SelectSeq(@, LAMBDA c : c.id # r.cid)]
    [] r.op = "setDescription" -> [doc EXCEPT !.description = r.arg]
    [] OTHER                   -> doc

\* photo.save() of a stored photo
PhotoSave(ph, r) == [ph EXCEPT ![r.photo] = DocUpdate(ph[r.photo], r)]

\* a faulty photo.deleteOne(): the document stays
PhotoDeleteNothing(ph, p) == ph

\* photo.deleteOne()
PhotoDeleteOne(ph, p) == [q \in DOMAIN ph \ {p} |-> ph[q]]

\* newPhoto.save()
PhotoInsert(ph, id, doc) == [q \in DOMAIN ph \cup {id} |-> IF q = id THEN doc ELSE ph[q]]

FreeSlots == {s \in Slots : reqs[s] = Idle}
Done(s, reply) == /\ reqs' = [reqs EXCEPT ![s] = Idle]
                  /\ resp' = reply
Goto(s, r)     == /\ reqs' = [reqs EXCEPT ![s] = r]
                  /\ UNCHANGED resp
Headers        == {NoToken, ForgedToken} \cup held

\* ------------------------------------------------------------ photo routes
\* POST /upload; ok is whether multer delivered a file and the media host stored it
Upload(tok, description, ok) ==
  /\ budget > 0
  /\ budget' = budget - 1
  /\ LET auth == AuthMiddleware(tok, now)
         r    == [Idle EXCEPT !.route = "upload", !.token = tok, !.user = auth.user,
                              !.photo = nextPhoto]
     IN IF auth.status # 0
        THEN /\ resp' = [ReplyTo(r, auth.status, auth.msg) EXCEPT !.photo = 0]
             /\ UNCHANGED <<photos, nextPhoto>>
        ELSE IF ~ok
        THEN /\ resp' = [ReplyTo(r, 500, "upload error") EXCEPT !.photo = 0]
             /\ UNCHANGED <<photos, nextPhoto>>
        ELSE /\ nextPhoto <= MaxPhotos
             /\ photos' = PhotoInsert(photos, nextPhoto,
                            [user |-> auth.user, description |-> description,
                             likes |-> <<>>, comments |-> <<>>])
             /\ nextPhoto' = nextPhoto + 1
             /\ resp' = ReplyTo(r, 200, "")
  /\ UNCHANGED <<users, nextComment, now, held, reqs>>

\* GET /photos
ListPhotos(tok) ==
  /\ budget > 0
  /\ budget' = budget - 1
  /\ LET auth == AuthMiddleware(tok, now)
         r    == [Idle EXCEPT !.route = "photos", !.token = tok, !.user = auth.user]
     IN resp' = IF auth.status # 0
                THEN ReplyTo(r, auth.status, auth.msg)
                ELSE [ReplyTo(r, 200, "") EXCEPT !.count = Cardinality(DOMAIN photos)]
  /\ UNCHANGED <<users, photos, nextPhoto, nextComment, now, held, reqs>>

\* The routes that await the store twice: authMiddleware, then the handler up to
\* its first await (findById)
Receive(route, tok, p, arg, cid) ==
  /\ budget > 0
  /\ budget' = budget - 1
  /\ LET auth == AuthMiddleware(tok, now)
         r    == [Idle EXCEPT !.route = route, !.token = tok, !.user = auth.user,
                              !.photo = p, !.arg = arg, !.cid = cid, !.pc = "find"]
     IN IF auth.status # 0
        THEN /\ resp' = ReplyTo([Idle EXCEPT !.route = route, !.token = tok],
                                auth.status, auth.msg)
             /\ UNCHANGED reqs
        ELSE /\ FreeSlots # {}
             /\ Goto(CHOOSE s \in FreeSlots : \A q \in FreeSlots : s <= q, r)
  /\ UNCHANGED <<users, photos, nextPhoto, nextComment, now, held>>

\* POST /photos/:id/comment (the first registration is the one Express runs)
CommentFind(s) ==
  LET r == reqs[s] IN
  /\ r.route = "comment" /\ r.pc = "find"
  /\ IF r.photo \notin DOMAIN photos
     THEN /\ Done(s, ReplyTo(r, 404, "Photo not found"))
          /\ UNCHANGED nextComment
     ELSE /\ nextComment <= MaxComments
          /\ Goto(s, [r EXCEPT !.pc = "save", !.op = "pushComment", !.cid = nextComment])
          /\ nextComment' = nextComment + 1
  /\ UNCHANGED <<users, photos, nextPhoto, now, held, budget>>

CommentSave(s) ==
  LET r == reqs[s] IN
  /\ r.route = "comment" /\ r.pc = "save"
  /\ IF r.photo \notin DOMAIN photos
     THEN /\ Done(s, ReplyTo(r, 500, "DocumentNotFoundError"))
          /\ UNCHANGED photos
     ELSE /\ photos' = PhotoSave(photos, r)
          /\ Goto(s, [r EXCEPT !.pc = "refind"])
  /\ UNCHANGED <<users, nextPhoto, nextComment, now, held, budget>>

CommentRefind(s) ==
  LET r == reqs[s] IN
  /\ r.route = "comment" /\ r.pc = "refind"
  /\ IF r.photo \notin DOMAIN photos
     THEN Done(s, ReplyTo(r, 500, "TypeError"))
     ELSE Done(s, [ReplyTo(r, 200, "") EXCEPT !.comments = photos[r.photo].comments])
  /\ UNCHANGED <<users, photos, nextPhoto, nextComment, now, held, budget>>

\* PUT /photos/:id/description
DescriptionFind(s) ==
  LET r == reqs[s] IN
  /\ r.route = "description" /\ r.pc = "find"
  /\ IF r.photo \notin DOMAIN photos
     THEN Done(s, ReplyTo(r, 404, "Photo not found"))
     ELSE IF PhotoNotAllowed(photos[r.photo], r.user)
     THEN Done(s, ReplyTo(r, 403, "Not allowed"))
     ELSE Goto(s, [r EXCEPT !.pc = "save", !.op = "setDescription"])
  /\ UNCHANGED <<users, photos, nextPhoto, nextComment, now, held, budget>>

DescriptionSave(s) ==
  LET r == reqs[s] IN
  /\ r.route = "description" /\ r.pc = "save"
  /\ IF r.photo \notin DOMAIN photos
     THEN /\ Done(s, ReplyTo(r, 500, "DocumentNotFoundError"))
          /\ UNCHANGED photos
     ELSE /\ photos' = PhotoSave(photos, r)
          /\ Done(s, ReplyTo(r, 200, ""))
  /\ UNCHANGED <<users, nextPhoto, nextComment, now, held, budget>>

\* POST /photos/:id/like: the change made to the handler's copy and the length
\* of that copy afterwards
LikeLocal(likes, u) ==
  IF Includes(likes, u)
  THEN [op |-> "pullLike", count |-> Len(SelectSeq(likes, LAMBDA x : x # u))]
  ELSE [op |-> "pushLike", count |-> Len(likes) + 1]

\* one like request handled with no other step in between: the stored document
\* afterwards and the count returned
ToggleLike(doc, u) ==
  LET l == LikeLocal(doc.likes, u)
  IN [doc   |-> DocUpdate(doc, [Idle EXCEPT !.op = l.op, !.user = u]),
      count |-> l.count]

LikeFind(s) ==
  LET r == reqs[s] IN
  /\ r.route = "like" /\ r.pc = "find"
  /\ IF r.photo \notin DOMAIN photos
     THEN Done(s, ReplyTo(r, 404, "Photo not found"))
     ELSE LET l == LikeLocal(photos[r.photo].likes, r.user)
          IN Goto(s, [r EXCEPT !.pc = "save", !.op = l.op, !.count = l.count])
  /\ UNCHANGED <<users, photos, nextPhoto, nextComment, now, held, budget>>

LikeSave(s) ==
  LET r == reqs[s] IN
  /\ r.route = "like" /\ r.pc = "save"
  /\ IF r.photo \notin DOMAIN photos
     THEN /\ Done(s, ReplyTo(r, 500, "DocumentNotFoundError"))
          /\ UNCHANGED photos
     ELSE /\ photos' = PhotoSave(photos, r)
          /\ Done(s, [ReplyTo(r, 200, "") EXCEPT !.count = r.count])
  /\ UNCHANGED <<users, nextPhoto, nextComment, now, held, budget>>

\* DELETE /photos/:photoId/comment/:commentId
CommentDeleteFind(s) ==
  LET r == reqs[s] IN
  /\ r.route = "commentDelete" /\ r.pc = "find"
  /\ IF r.photo \notin DOMAIN photos
     THEN Done(s, ReplyTo(r, 404, "Photo not found"))
     ELSE LET i == CommentIndex(photos[r.photo].comments, r.cid) IN
          IF i = 0
          THEN Done(s, ReplyTo(r, 404, "Comment not found"))
          ELSE IF CommentNotAllowed(photos[r.photo], photos[r.photo].comments[i], r.user)
          THEN Done(s, ReplyTo(r, 403, "Not allowed"))
          ELSE Goto(s, [r EXCEPT !.pc = "save", !.op = "pullComment"])
  /\ UNCHANGED <<users, photos, nextPhoto, nextComment, now, held, budget>>

CommentDeleteSave(s) ==
  LET r == reqs[s] IN
  /\ r.route = "commentDelete" /\ r.pc = "save"
  /\ IF r.photo \notin DOMAIN photos
     THEN /\ Done(s, ReplyTo(r, 500, "DocumentNotFoundError"))
          /\ UNCHANGED photos
     ELSE /\ photos' = PhotoSave(photos, r)
          /\ Done(s, ReplyTo(r, 200, "Comment deleted"))
  /\ UNCHANGED <<users, nextPhoto, nextComment, now, held, budget>>

\* DELETE /photos/:id
PhotoDeleteFind(s) ==
  LET r == reqs[s] IN
  /\ r.route = "photoDelete" /\ r.pc = "find"
  /\ IF r.photo \notin DOMAIN photos
     THEN Done(s, ReplyTo(r, 404, "Photo not found"))
     ELSE IF PhotoNotAllowed(photos[r.photo], r.user)
     THEN Done(s, ReplyTo(r, 403, "Not allowed"))
     ELSE Goto(s, [r EXCEPT !.pc = "save", !.op = "deleteOne"])
  /\ UNCHANGED <<users, photos, nextPhoto, nextComment, now, held, budget>>

PhotoDeleteSave(s) ==
  LET r == reqs[s] IN
  /\ r.route = "photoDelete" /\ r.pc = "save"
  /\ photos' = PhotoDeleteOne(photos, r.photo)
  /\ Done(s, ReplyTo(r, 200, "Photo deleted"))
  /\ UNCHANGED <<users, nextPhoto, nextComment, now, held, budget>>

\* ----------------------------------------------------------- specifications
SignupStep == \E in \in SignupInputs : Signup(in)
LoginStep  == \E e \in Emails, pw \in Passwords : Login(e, pw)
UploadStep(H) == \E tok \in H, d \in {"", "d1"}, ok \in BOOLEAN : Upload(tok, d, ok)
ListStep(H)   == \E tok \in H : ListPhotos(tok)
ReceiveComment(H, T)    == \E tok \in H, p \in PhotoIds, t \in T :
                             Receive("comment", tok, p, t, 0)
ReceiveDescription(H)   == \E tok \in H, p \in PhotoIds, d \in Descriptions :
                             Receive("description", tok, p, d, 0)
ReceiveLike(H)          == \E tok \in H, p \in PhotoIds : Receive("like", tok, p, "", 0)
ReceiveCommentDelete(H) == \E tok \in H, p \in PhotoIds, c \in CommentIds :
                             Receive("commentDelete", tok, p, "", c)
ReceivePhotoDelete(H)   == \E tok \in H, p \in PhotoIds : Receive("photoDelete", tok, p, "", 0)

\* every route, every kind of authorization header
Next ==
  \/ SignupStep
  \/ LoginStep
  \/ Tick
  \/ UploadStep(Headers)
  \/ ListStep(Headers)
  \/ ReceiveComment(Headers, {"t1"})
  \/ ReceiveDescription(Headers)
  \/ ReceiveLike(Headers)
  \/ ReceiveCommentDelete(Headers)
  \/ ReceivePhotoDelete(Headers)
  \/ \E s \in Slots : CommentFind(s)
  \/ \E s \in Slots : CommentSave(s)
  \/ \E s \in Slots : CommentRefind(s)
  \/ \E s \in Slots : DescriptionFind(s)
  \/ \E s \in Slots : DescriptionSave(s)
  \/ \E s \in Slots : LikeFind(s)
  \/ \E s \in Slots : LikeSave(s)
  \/ \E s \in Slots : CommentDeleteFind(s)
  \/ \E s \in Slots : CommentDeleteSave(s)
  \/ \E s \in Slots : PhotoDeleteFind(s)
  \/ \E s \in Slots : PhotoDeleteSave(s)

Spec == Init /\ [][Next]_vars

\* signup, login and the clock, with the token gate in front of the upload,
\* list and like routes
NextAuth ==
  \/ SignupStep
  \/ LoginStep
  \/ Tick
  \/ UploadStep(Headers)
  \/ ListStep(Headers)
  \/ ReceiveLike(Headers)
  \/ \E s \in Slots : LikeFind(s)
  \/ \E s \in Slots : LikeSave(s)

SpecAuth == Init /\ [][NextAuth]_vars

\* Longer behaviours of clients that send the token login gave them, with the
\* clock stopped: the comment routes and photo deletion
InitDeep ==
  /\ users = <<>>
  /\ photos = <<>>
  /\ nextPhoto = 1
  /\ nextComment = 1
  /\ now = 0
  /\ held = {}
  /\ reqs = [s \in Slots |-> Idle]
  /\ resp = NoResp
  /\ budget = MaxDeep

GoodLogin == \E in \in SignupInputs : Login(in.email, in.password)

NextComments ==
  \/ SignupStep
  \/ GoodLogin
  \/ UploadStep(held)
  \/ ReceiveComment(held, Texts)
  \/ ReceiveCommentDelete(held)
  \/ ReceivePhotoDelete(held)
  \/ \E s \in Slots : CommentFind(s)
  \/ \E s \in Slots : CommentSave(s)
  \/ \E s \in Slots : CommentRefind(s)
  \/ \E s \in Slots : CommentDeleteFind(s)
  \/ \E s \in Slots : CommentDeleteSave(s)
  \/ \E s \in Slots : PhotoDeleteFind(s)
  \/ \E s \in Slots : PhotoDeleteSave(s)

SpecComments == InitDeep /\ [][NextComments]_vars

\* the routes that check ownership of the photo, with likes and comments present
NextOwner ==
  \/ SignupStep
  \/ GoodLogin
  \/ UploadStep(held)
  \/ ReceiveDescription(held)
  \/ ReceivePhotoDelete(held)
  \/ ReceiveLike(held)
  \/ ReceiveComment(held, {"t1"})
  \/ \E s \in Slots : DescriptionFind(s)
  \/ \E s \in Slots : DescriptionSave(s)
  \/ \E s \in Slots : PhotoDeleteFind(s)
  \/ \E s \in Slots : PhotoDeleteSave(s)
  \/ \E s \in Slots : LikeFind(s)
  \/ \E s \in Slots : LikeSave(s)
  \/ \E s \in Slots : CommentFind(s)
  \/ \E s \in Slots : CommentSave(s)
  \/ \E s \in Slots : CommentRefind(s)

SpecOwner == InitDeep /\ [][NextOwner]_vars

\* ------------------------------------------------------------------ claims
\* the step answers the request it receives (no handler is left suspended)
Answered == budget' = budget - 1 /\ reqs' = reqs

\* slot s runs a step of its handler
Acts(s) == reqs[s] # Idle /\ reqs'[s] # reqs[s]

\* slot s sends its response
Replies(s) == reqs[s] # Idle /\ reqs'[s] = Idle

\* a token signed with the secret less than TokenTTL hours ago
TokenGood(tok, t) == tok.sig = "JWT_SECRET" /\ t < tok.iat + TokenTTL

ProtectedRoutes == SlotRoutes \cup {"upload", "photos"}
AuthMessages    == {"No token", "Invalid token"}
NoDuplicates(seq) == \A i, j \in 1..Len(seq) : seq[i] = seq[j] => i = j
Occurrences(seq, x) == Cardinality({i \in 1..Len(seq) : seq[i] = x})

\* what OwnerOnly asks of every step
OwnerOnlyStep ==
  /\ \A s \in Slots :
       LET r == reqs[s] IN
       ( /\ r.route \in {"description", "photoDelete"} /\ r.pc = "find" /\ Acts(s)
         /\ r.photo \in DOMAIN photos
         /\ photos[r.photo].user # r.user )
       => /\ Replies(s)
          /\ resp'.status = 403 /\ resp'.msg = "Not allowed"
          /\ resp'.route = r.route /\ resp'.user = r.user /\ resp'.photo = r.photo
          /\ photos' = photos
  /\ \A p \in DOMAIN photos :
       /\ (p \notin DOMAIN photos' \/ photos'[p].description # photos[p].description)
          => \E s \in Slots :
               /\ Replies(s) /\ reqs[s].photo = p /\ reqs[s].user = photos[p].user
               /\ reqs[s].route = (IF p \in DOMAIN photos' THEN "description" ELSE "photoDelete")
               /\ resp'.status = 200
       /\ (p \in DOMAIN photos' => photos'[p].user = photos[p].user)

\* C1: an updateDescription or delete request of a caller who is not the
\* photo's owner is answered 403 and leaves every photo as stored; a photo's
\* description changes, and a photo is removed, only in the save step of a
\* request of its owner, and the owner never changes.
OwnerOnly == [][OwnerOnlyStep]_vars

\* a caller who does not own the photo has been answered 403 by
\* updateDescription or delete, the photo holding a like or a comment
OwnerOnlyWitness ==
  /\ resp.route \in {"description", "photoDelete"} /\ resp.status = 403
  /\ resp.photo \in DOMAIN photos
  /\ photos[resp.photo].user # resp.user
  /\ (photos[resp.photo].likes # <<>> \/ photos[resp.photo].comments # <<>>)

\* C2: each photo's likes hold each user at most once.
LikesAtMostOnce == \A p \in DOMAIN photos : NoDuplicates(photos[p].likes)

\* C3: two successive like requests of one user on one photo, nothing in
\* between, restore the photo's likes and the second returns the count the
\* photo had before the first; each returns the size of the likes that result
\* from it, one more or one fewer than before.
LikeRoundTrip ==
  \A p \in DOMAIN photos : \A u \in 1..Len(users) :
    LET d0 == photos[p]
        t1 == ToggleLike(d0, u)
        t2 == ToggleLike(t1.doc, u)
    IN /\ \A v \in 1..Len(users) :
            Occurrences(t2.doc.likes, v) = Occurrences(d0.likes, v)
       /\ t2.count = Len(d0.likes)
       /\ t1.count = Len(t1.doc.likes)
       /\ t2.count = Len(t2.doc.likes)
       /\ t1.count = (IF Includes(d0.likes, u) THEN Len(d0.likes) - 1 ELSE Len(d0.likes) + 1)

UniqueEmails == \A i, j \in 1..Len(users) : users[i].email = users[j].email => i = j

\* what DuplicateEmailRejected asks of every step
DuplicateEmailStep ==
  /\ (Answered /\ resp'.route = "signup" /\ HasEmail(users, resp'.email))
     => /\ resp'.status = 500 /\ resp'.msg = "E11000 duplicate key"
        /\ users' = users
  /\ UniqueEmails'

\* C4: a signup with an email a stored user has fails with the store's
\* duplicate-key error and leaves the users as stored; no two users share an
\* email.
DuplicateEmailRejected == [][DuplicateEmailStep]_vars

\* a signup has been refused for its email while that email's user is stored
DuplicateEmailWitness ==
  /\ resp.route = "signup" /\ resp.status = 500
  /\ \E i \in 1..Len(users) : users[i].email = resp.email /\ users[i].username = "a"

PhotoDeleted(p) == p < nextPhoto /\ p \notin DOMAIN photos

\* what DeleteCascade asks of every step
DeleteCascadeStep ==
  /\ \A s \in Slots :
       (Replies(s) /\ reqs[s].route = "photoDelete" /\ resp'.status = 200)
       => reqs[s].photo \notin DOMAIN photos'
  /\ \A p \in PhotoIds :
       PhotoDeleted(p)
       => /\ p \notin DOMAIN photos'
          /\ \A s \in Slots :
               ( /\ reqs[s].route = "commentDelete" /\ reqs[s].pc = "find"
                 /\ reqs[s].photo = p /\ Acts(s) )
               => /\ Replies(s)
                  /\ resp'.status = 404 /\ resp'.route = "commentDelete"
                  /\ resp'.photo = p /\ resp'.cid = reqs[s].cid
                  /\ photos' = photos

\* C5: a delete answered "Photo deleted" has removed the photo, comments
\* included; a removed photo never comes back, and every comment-remove request
\* that looks a removed photo up is answered 404, whoever the caller is.
DeleteCascade == [][DeleteCascadeStep]_vars

\* a comment-remove request for a comment of a removed photo has been answered 404
DeleteCascadeWitness ==
  /\ resp.route = "commentDelete" /\ resp.status = 404
  /\ PhotoDeleted(resp.photo)
  /\ resp.cid < nextComment

\* what CommentOrder asks of every step
CommentOrderStep ==
  \A p \in DOMAIN photos :
    p \in DOMAIN photos' =>
      LET old == photos[p].comments
          new == photos'[p].comments
      IN /\ \/ new = old
            \/ \E s \in Slots :
                 /\ reqs[s].route = "comment" /\ reqs[s].pc = "save" /\ Acts(s)
                 /\ reqs[s].photo = p
                 /\ new = Append(old, [id |-> reqs[s].cid, user |-> reqs[s].user,
                                       text |-> reqs[s].arg])
                 /\ \A i \in 1..Len(old) : old[i].id # reqs[s].cid
            \/ \E s \in Slots :
                 /\ reqs[s].route = "commentDelete" /\ reqs[s].pc = "save" /\ Replies(s)
                 /\ reqs[s].photo = p
                 /\ new = SelectSeq(old, LAMBDA c : c.id # reqs[s].cid)
                 /\ Len(new) = Len(old) - 1
         /\ NoDuplicates([i \in 1..Len(new) |-> new[i].id])

\* C6: every step leaves a stored photo's comments as they are, or appends
\* exactly one new comment (author the caller, the given text, a new id) at
\* the end in the save step of a comment add, or takes exactly the named
\* comment out in the save step of a comment remove; no comment is stored twice.
CommentOrder == [][CommentOrderStep]_vars

\* two concurrent adds have been persisted in the order opposite to the one
\* in which their handlers read the photo
CommentOrderWitness ==
  \E p \in DOMAIN photos :
    /\ Len(photos[p].comments) = 2
    /\ photos[p].comments[1].id > photos[p].comments[2].id

DbUnchanged == /\ users' = users /\ photos' = photos
               /\ nextPhoto' = nextPhoto /\ nextComment' = nextComment

\* what AuthGate asks of every step
AuthGateStep ==
  /\ \A s \in Slots :
       /\ (reqs[s] = Idle /\ reqs'[s] # Idle)
          => /\ TokenGood(reqs'[s].token, now)
             /\ reqs'[s].user = reqs'[s].token.id
             /\ reqs'[s].pc = "find"
       /\ (reqs[s] # Idle /\ reqs'[s] # Idle)
          => reqs'[s].token = reqs[s].token /\ reqs'[s].user = reqs[s].user
  /\ (Answered /\ resp'.route \in ProtectedRoutes)
     => IF resp'.token = NoToken
        THEN resp'.status = 401 /\ resp'.msg = "No token" /\ DbUnchanged
        ELSE IF ~TokenGood(resp'.token, now)
        THEN resp'.status = 403 /\ resp'.msg = "Invalid token" /\ DbUnchanged
        ELSE /\ resp'.route \in {"upload", "photos"}
             /\ resp'.msg \notin AuthMessages
             /\ resp'.user = resp'.token.id
  /\ photos' # photos
     => \/ \E s \in Slots : Acts(s)
        \/ Answered /\ resp'.route = "upload" /\ TokenGood(resp'.token, now)

\* C7: a protected request without a token is answered 401 and one whose
\* token fails the signature or expiry check 403, nothing stored changing; a
\* handler is started only for a verified token, with the token's identity,
\* which it keeps; photos change only in steps of such handlers.
AuthGate == [][AuthGateStep]_vars

\* a request with a forged token has been answered 403 while a photo is stored
AuthGateWitness ==
  /\ resp.route \in ProtectedRoutes /\ resp.status = 403 /\ resp.token = ForgedToken
  /\ DOMAIN photos # {}

\* C8: a login for an email with no stored user and a login for a stored email
\* with a wrong password get the same response, InvalidCredential, and no token.
LoginIndistinguishable ==
  \A e1, e2 \in Emails : \A pw1, pw2 \in Passwords :
    LET a == LoginReply(users, e1, pw1, now)
        b == LoginReply(users, e2, pw2, now)
    IN ( /\ ~HasEmail(users, e1)
         /\ \E i \in 1..Len(users) :
               users[i].email = e2 /\ users[i].password # BcryptHash(pw2) )
       => /\ a.status = b.status /\ a.msg = b.msg
          /\ a.msg = "Invalid credentials"
          /\ a.token = NoToken /\ b.token = NoToken

\* what CommentRemove asks of every step
CommentRemoveStep ==
  \A s \in Slots :
    LET r == reqs[s] IN
    /\ (r.route = "commentDelete" /\ r.pc = "find" /\ Acts(s))
       => IF r.photo \notin DOMAIN photos
          THEN Replies(s) /\ resp'.status = 404 /\ resp'.msg = "Photo not found"
               /\ photos' = photos
          ELSE IF \A i \in 1..Len(photos[r.photo].comments) :
                    photos[r.photo].comments[i].id # r.cid
          THEN Replies(s) /\ resp'.status = 404 /\ resp'.msg = "Comment not found"
               /\ photos' = photos
          ELSE IF \E i \in 1..Len(photos[r.photo].comments) :
                    /\ photos[r.photo].comments[i].id = r.cid
                    /\ photos[r.photo].comments[i].user # r.user
          THEN Replies(s) /\ resp'.status = 403 /\ resp'.msg = "Not allowed"
               /\ photos' = photos
          ELSE ~Replies(s) /\ reqs'[s].pc = "save" /\ photos' = photos
    /\ (r.route = "commentDelete" /\ r.pc = "save" /\ Acts(s) /\ r.photo \in DOMAIN photos)
       => /\ Replies(s) /\ resp'.status = 200 /\ resp'.cid = r.cid
          /\ photos' = [photos EXCEPT ![r.photo].comments =
                          SelectSeq(@, LAMBDA c : c.id # r.cid)]
          /\ \A i \in 1..Len(photos[r.photo].comments) :
               photos[r.photo].comments[i].id = r.cid
               => photos[r.photo].comments[i].user = r.user

\* C9: a comment-remove request is answered 404 when its photo or its comment
\* is not found and 403 when the caller is not the comment's author, the
\* photo's owner included, and none of these changes a photo; the save step of
\* the author's request takes that comment out and leaves every other comment.
CommentRemove == [][CommentRemoveStep]_vars

\* the photo's owner has been refused the removal of another user's comment
CommentRemoveWitness ==
  /\ resp.route = "commentDelete" /\ resp.status = 403
  /\ resp.photo \in DOMAIN photos
  /\ photos[resp.photo].user = resp.user
  /\ \E i \in 1..Len(photos[resp.photo].comments) :
       /\ photos[resp.photo].comments[i].id = resp.cid
       /\ photos[resp.photo].comments[i].user # resp.user

\* what TokenRoundTrip asks of every step
TokenRoundTripStep ==
  /\ \A i \in 1..Len(users) : \A pw \in Passwords :
       users[i].password = BcryptHash(pw)
       => LET a == LoginReply(users, users[i].email, pw, now)
          IN a.status = 200 /\ a.user = i /\ a.token.id = i /\ TokenGood(a.token, now)
  /\ (Answered /\ resp'.route = "login" /\ resp'.status = 200)
     => /\ resp'.user \in 1..Len(users)
        /\ users[resp'.user].email = resp'.email
        /\ resp'.token.id = resp'.user
        /\ resp'.token.iat = now
        /\ resp'.token \in held'
  /\ \A s \in Slots :
       (reqs[s] = Idle /\ reqs'[s] # Idle /\ reqs'[s].token \in held)
       => now < reqs'[s].token.iat + TokenTTL /\ reqs'[s].user = reqs'[s].token.id
  /\ (Answered /\ resp'.route \in ProtectedRoutes /\ resp'.token \in held)
     => IF now < resp'.token.iat + TokenTTL
        THEN resp'.msg \notin AuthMessages /\ resp'.user = resp'.token.id
        ELSE resp'.status = 403 /\ resp'.msg = "Invalid token"

\* C10: a login with a stored user's email and password returns a token for
\* that user's id, the userId of the response; the auth middleware accepts a
\* token login has issued, with that id as the request identity, while fewer
\* than TokenTTL hours have passed since the login, and answers 403 from then on.
TokenRoundTrip == [][TokenRoundTripStep]_vars

\* a token login issued is the identity of a handler in flight, and the same
\* token, presented after it expired, has been answered 403
TokenRoundTripWitness ==
  /\ resp.status = 403 /\ resp.msg = "Invalid token" /\ resp.token \in held
  /\ \E s \in Slots : reqs[s] # Idle /\ reqs[s].token = resp.token
                      /\ reqs[s].user = resp.token.id
====
